---- MODULE Spec2Model ----
(***************************************************************************)
(* A model of the markdown image embedder (src/main.go).                   *)
(*                                                                         *)
(* Text is a sequence of one-character strings; offsets are 0-based and    *)
(* half-open as in Go, so content[a:b] is Slice(content, a, b).            *)
(* The scanner's regular expressions are sequences of items matched with   *)
(* the leftmost-first (backtracking priority) semantics of Go's regexp.    *)
(***************************************************************************)
EXTENDS Integers, Sequences, FiniteSets, TLC

(***************************************************************************)
(* Strings                                                                 *)
(***************************************************************************)

\* s[a:b]
Slice(s, a, b) == SubSeq(s, a + 1, b)

\* strings.HasPrefix(s, p)
HasPrefix(s, p) == Len(s) >= Len(p) /\ SubSeq(s, 1, Len(p)) = p

\* strings.HasSuffix(s, p)
HasSuffix(s, p) == Len(s) >= Len(p) /\ SubSeq(s, Len(s) - Len(p) + 1, Len(s)) = p

\* p occurs in s at offset i
LitAt(s, i, p) == i + Len(p) <= Len(s) /\ SubSeq(s, i + 1, i + Len(p)) = p

\* strings.Contains(s, p)
Contains(s, p) == \E i \in 0..Len(s) : LitAt(s, i, p)

\* strings.Count(s, p) for a p that cannot overlap itself
Count(s, p) == Cardinality({i \in 0..Len(s) : LitAt(s, i, p)})

\* the white space of strings.TrimSpace and of the regexp class \s
Space == {" ", "\t", "\n", "\r", "\f"}

RECURSIVE TrimLeft(_)
TrimLeft(s) == IF s # <<>> /\ Head(s) \in Space THEN TrimLeft(Tail(s)) ELSE s

Digit == {"0", "1", "2", "3", "4", "5", "6", "7", "8", "9"}

DigitVal(c) ==
    CASE c = "0" -> 0 [] c = "1" -> 1 [] c = "2" -> 2 [] c = "3" -> 3
      [] c = "4" -> 4 [] c = "5" -> 5 [] c = "6" -> 6 [] c = "7" -> 7
      [] c = "8" -> 8 [] c = "9" -> 9

\* strconv.Atoi on a string of decimal digits (the only strings it is given)
RECURSIVE Atoi(_)
Atoi(s) == IF s = <<>> THEN 0
           ELSE 10 * Atoi(SubSeq(s, 1, Len(s) - 1)) + DigitVal(s[Len(s)])

(***************************************************************************)
(* Regular expressions                                                     *)
(***************************************************************************)

Lit(str) == [k |-> "lit", s |-> str]
\* a character class repeated min..max times (max = 0: unbounded)
Cls(neg, set, min, max, lazy) ==
    [k |-> "cls", neg |-> neg, set |-> set, min |-> min, max |-> max, lazy |-> lazy]
Star(neg, set) == Cls(neg, set, 0, 0, FALSE)
Plus(neg, set) == Cls(neg, set, 1, 0, FALSE)
LazyPlus(neg, set) == Cls(neg, set, 1, 0, TRUE)
One(set) == Cls(FALSE, set, 1, 1, FALSE)
\* a capture-group boundary, stored at index idx of the match
Mark(idx) == [k |-> "mark", idx |-> idx]

NoMatch == <<-1>>

InClass(c, it) == (c \in it.set) # it.neg

\* the number of characters from offset i on that are in the class, at most cap
RunLen(s, i, it, cap) ==
    LET Stops(j) == j = Len(s) \/ j = i + cap \/ ~InClass(s[j + 1], it)
    IN  (CHOOSE j \in i..Len(s) : Stops(j) /\ \A m \in i..(j - 1) : ~Stops(m)) - i

\* The offsets reached after each of the items k.. of re, matched at offset i
\* of s with backtracking priority, or NoMatch.  A repeated class takes the
\* first length, in its order of preference (longest first when greedy,
\* shortest first when lazy), that lets the rest of the expression match.
RECURSIVE MatchItems(_, _, _, _)
MatchItems(re, k, s, i) ==
    IF k > Len(re) THEN <<>>
    ELSE LET it == re[k] IN
         CASE it.k = "lit" ->
                IF LitAt(s, i, it.s)
                THEN LET r == MatchItems(re, k + 1, s, i + Len(it.s))
                     IN  IF r = NoMatch THEN NoMatch ELSE <<i + Len(it.s)>> \o r
                ELSE NoMatch
           [] it.k = "mark" ->
                LET r == MatchItems(re, k + 1, s, i)
                IN  IF r = NoMatch THEN NoMatch ELSE <<i>> \o r
           [] it.k = "cls" ->
                LET run == RunLen(s, i, it, IF it.max = 0 THEN Len(s) ELSE it.max)
                    rest == {<<n, MatchItems(re, k + 1, s, i + n)>> : n \in it.min..run}
                    ok == {c \in rest : c[2] # NoMatch}
                    best == IF it.lazy THEN CHOOSE c \in ok : \A d \in ok : c[1] <= d[1]
                            ELSE CHOOSE c \in ok : \A d \in ok : c[1] >= d[1]
                IN  IF ok = {} THEN NoMatch ELSE <<i + best[1]>> \o best[2]

\* the index array of one match, as regexp's FindStringSubmatchIndex returns it
MatchIndex(re, i, ends, groups) ==
    [j \in 0..(2 * groups + 1) |->
        IF j = 0 THEN i
        ELSE IF j = 1 THEN ends[Len(ends)]
        ELSE LET ks == {k \in 1..Len(re) : re[k].k = "mark" /\ re[k].idx = j}
             IN  IF ks = {} THEN -1 ELSE ends[CHOOSE k \in ks : TRUE]]

\* regexp.FindAllStringSubmatchIndex(content, -1): successive leftmost matches
RECURSIVE FindAllFrom(_, _, _, _)
FindAllFrom(re, groups, s, i) ==
    LET starts == {j \in i..(Len(s) - 1) : MatchItems(re, 1, s, j) # NoMatch}
    IN  IF starts = {} THEN <<>>
        ELSE LET j == CHOOSE a \in starts : \A b \in starts : a <= b
                 ends == MatchItems(re, 1, s, j)
             IN  <<MatchIndex(re, j, ends, groups)>>
                 \o FindAllFrom(re, groups, s, ends[Len(ends)])

FindAllStringSubmatchIndex(re, groups, s) == FindAllFrom(re, groups, s, 0)


(***************************************************************************)
(* The Scanner: findImageReferences                                        *)
(***************************************************************************)

Quote == {"\"", "'"}

\* !\[([^\]]*)\]\(([^=)]+)\)(\s*\{:\s*width=(\d+)\s*height=(\d+)\s*\})
markdownRegex ==
    << Lit(<<"!", "[">>), Mark(2), Star(TRUE, {"]"}), Mark(3), Lit(<<"]", "(">>),
       Mark(4), Plus(TRUE, {"=", ")"}), Mark(5), Lit(<<")">>),
       Mark(6), Star(FALSE, Space), Lit(<<"{", ":">>), Star(FALSE, Space),
       Lit(<<"w", "i", "d", "t", "h", "=">>), Mark(8), Plus(FALSE, Digit), Mark(9),
       Star(FALSE, Space),
       Lit(<<"h", "e", "i", "g", "h", "t", "=">>), Mark(10), Plus(FALSE, Digit), Mark(11),
       Star(FALSE, Space), Lit(<<"}">>), Mark(7) >>

\* !\[([^\]]*)\]\(([^=)]+)\)
markdownBasicRegex ==
    << Lit(<<"!", "[">>), Mark(2), Star(TRUE, {"]"}), Mark(3), Lit(<<"]", "(">>),
       Mark(4), Plus(TRUE, {"=", ")"}), Mark(5), Lit(<<")">>) >>

\* !\[([^\]]*)\]\(([^=)]+?)\s*=\s*(\d+)x(\d+)\)
markdownNewRegex ==
    << Lit(<<"!", "[">>), Mark(2), Star(TRUE, {"]"}), Mark(3), Lit(<<"]", "(">>),
       Mark(4), LazyPlus(TRUE, {"=", ")"}), Mark(5),
       Star(FALSE, Space), Lit(<<"=">>), Star(FALSE, Space),
       Mark(6), Plus(FALSE, Digit), Mark(7), Lit(<<"x">>),
       Mark(8), Plus(FALSE, Digit), Mark(9), Lit(<<")">>) >>

\* <img[^>]+src=["']([^"']+)["'][^>]*alt=["']([^"']*)["'][^>]*>
htmlSimpleRegex ==
    << Lit(<<"<", "i", "m", "g">>), Plus(TRUE, {">"}),
       Lit(<<"s", "r", "c", "=">>), One(Quote), Mark(2), Plus(TRUE, Quote), Mark(3),
       One(Quote), Star(TRUE, {">"}),
       Lit(<<"a", "l", "t", "=">>), One(Quote), Mark(4), Star(TRUE, Quote), Mark(5),
       One(Quote), Star(TRUE, {">"}), Lit(<<">">>) >>

\* <img[^>]+src=["']([^"']+)["'][^>]*alt=["']([^"']*)["'][^>]*
\*     width=["'](\d+)["'][^>]*height=["'](\d+)["'][^>]*>
htmlRegex ==
    << Lit(<<"<", "i", "m", "g">>), Plus(TRUE, {">"}),
       Lit(<<"s", "r", "c", "=">>), One(Quote), Mark(2), Plus(TRUE, Quote), Mark(3),
       One(Quote), Star(TRUE, {">"}),
       Lit(<<"a", "l", "t", "=">>), One(Quote), Mark(4), Star(TRUE, Quote), Mark(5),
       One(Quote), Star(TRUE, {">"}),
       Lit(<<"w", "i", "d", "t", "h", "=">>), One(Quote), Mark(6), Plus(FALSE, Digit),
       Mark(7), One(Quote), Star(TRUE, {">"}),
       Lit(<<"h", "e", "i", "g", "h", "t", "=">>), One(Quote), Mark(8),
       Plus(FALSE, Digit), Mark(9), One(Quote), Star(TRUE, {">"}), Lit(<<">">>) >>

DataScheme == <<"d", "a", "t", "a", ":">>

\* a locator that is the scheme and nothing more
IsDataURLExact(imagePath) == imagePath = DataScheme

\* "Skip if it's already a data URL"
IsDataURL(imagePath) == HasPrefix(imagePath, DataScheme)

ImageReference(fullMatch, altText, imagePath, startPos, endPos, width, height, isHTML) ==
    [FullMatch |-> fullMatch, AltText |-> altText, ImagePath |-> imagePath,
     StartPos |-> startPos, EndPos |-> endPos,
     Width |-> width, Height |-> height, IsHTML |-> isHTML]

\* first loop: ![alt text](image_path){: width=X height=Y}
RECURSIVE MarkdownLoop(_, _, _, _)
MarkdownLoop(content, matches, n, refs) ==
    IF n > Len(matches) THEN refs
    ELSE LET match == matches[n]
             fullMatch == Slice(content, match[0], match[1])
             altText == Slice(content, match[2], match[3])
             imagePath == Slice(content, match[4], match[5])
             sized == match[6] # -1 /\ match[7] # -1
             width == IF sized THEN Atoi(Slice(content, match[8], match[9])) ELSE 0
             height == IF sized THEN Atoi(Slice(content, match[10], match[11])) ELSE 0
         IN  IF IsDataURL(imagePath)
             THEN MarkdownLoop(content, matches, n + 1, refs)
             ELSE MarkdownLoop(content, matches, n + 1,
                    Append(refs, ImageReference(fullMatch, altText, imagePath,
                                   match[0], match[1], width, height, FALSE)))

\* "Check if there are size attributes after this match"
FollowedBySize(content, endPos) ==
    /\ endPos < Len(content)
    /\ HasPrefix(TrimLeft(Slice(content, endPos, Len(content))), <<"{", ":">>)

\* second loop: ![alt text](image_path)
RECURSIVE MarkdownBasicLoop(_, _, _, _)
MarkdownBasicLoop(content, matches, n, refs) ==
    IF n > Len(matches) THEN refs
    ELSE LET match == matches[n]
             fullMatch == Slice(content, match[0], match[1])
             altText == Slice(content, match[2], match[3])
             imagePath == Slice(content, match[4], match[5])
         IN  IF \/ IsDataURL(imagePath)
                \/ Contains(fullMatch, <<" ", "=">>)
                \/ FollowedBySize(content, match[1])
             THEN MarkdownBasicLoop(content, matches, n + 1, refs)
             ELSE MarkdownBasicLoop(content, matches, n + 1,
                    Append(refs, ImageReference(fullMatch, altText, imagePath,
                                   match[0], match[1], 0, 0, FALSE)))

\* third loop: ![alt text](image_path =WxH)
RECURSIVE MarkdownNewLoop(_, _, _, _)
MarkdownNewLoop(content, matches, n, refs) ==
    IF n > Len(matches) THEN refs
    ELSE LET match == matches[n]
             fullMatch == Slice(content, match[0], match[1])
             altText == Slice(content, match[2], match[3])
             imagePath == Slice(content, match[4], match[5])
             width == Atoi(Slice(content, match[6], match[7]))
             height == Atoi(Slice(content, match[8], match[9]))
         IN  IF IsDataURL(imagePath)
             THEN MarkdownNewLoop(content, matches, n + 1, refs)
             ELSE MarkdownNewLoop(content, matches, n + 1,
                    Append(refs, ImageReference(fullMatch, altText, imagePath,
                                   match[0], match[1], width, height, FALSE)))

\* fourth loop: <img src="..." alt="..." width="..." height="...">
RECURSIVE HtmlLoop(_, _, _, _)
HtmlLoop(content, matches, n, refs) ==
    IF n > Len(matches) THEN refs
    ELSE LET match == matches[n]
             fullMatch == Slice(content, match[0], match[1])
             imagePath == Slice(content, match[2], match[3])
             altText == Slice(content, match[4], match[5])
             width == Atoi(Slice(content, match[6], match[7]))
             height == Atoi(Slice(content, match[8], match[9]))
         IN  IF IsDataURL(imagePath)
             THEN HtmlLoop(content, matches, n + 1, refs)
             ELSE HtmlLoop(content, matches, n + 1,
                    Append(refs, ImageReference(fullMatch, altText, imagePath,
                                   match[0], match[1], width, height, TRUE)))

\* "Skip if we already processed this as a sized img tag"
AlreadyProcessed(refs, match) ==
    \E r \in 1..Len(refs) : refs[r].StartPos = match[0] /\ refs[r].EndPos = match[1]

\* fifth loop: HTML img tags without size attributes
RECURSIVE HtmlSimpleLoop(_, _, _, _)
HtmlSimpleLoop(content, matches, n, refs) ==
    IF n > Len(matches) THEN refs
    ELSE LET match == matches[n]
             fullMatch == Slice(content, match[0], match[1])
             imagePath == Slice(content, match[2], match[3])
             altText == Slice(content, match[4], match[5])
         IN  IF IsDataURL(imagePath) \/ AlreadyProcessed(refs, match)
             THEN HtmlSimpleLoop(content, matches, n + 1, refs)
             ELSE HtmlSimpleLoop(content, matches, n + 1,
                    Append(refs, ImageReference(fullMatch, altText, imagePath,
                                   match[0], match[1], 0, 0, TRUE)))

findImageReferences(content) ==
    LET r1 == MarkdownLoop(content,
                 FindAllStringSubmatchIndex(markdownRegex, 5, content), 1, <<>>)
        r2 == MarkdownBasicLoop(content,
                 FindAllStringSubmatchIndex(markdownBasicRegex, 2, content), 1, r1)
        r3 == MarkdownNewLoop(content,
                 FindAllStringSubmatchIndex(markdownNewRegex, 4, content), 1, r2)
        r4 == HtmlLoop(content,
                 FindAllStringSubmatchIndex(htmlRegex, 4, content), 1, r3)
    IN  HtmlSimpleLoop(content,
                 FindAllStringSubmatchIndex(htmlSimpleRegex, 2, content), 1, r4)


(***************************************************************************)
(* The Materializer: imageToBase64, downloadAndEncodeExternalImage,        *)
(* resizeImage                                                             *)
(*                                                                         *)
(* The bytes of a file or of a response body are a record                  *)
(*   [kind, w, h, svg]: kind is what the bytes are ("PNG", "JPEG", "GIF",  *)
(*   "PPM": decodable by that decoder to a w x h image; "BADPNG",          *)
(*   "BADJPEG": the signature of the format, not decodable; "SVG", "HTML": *)
(*   text); svg says where the bytes hold the marker <svg, in any letter   *)
(*   case: "head" (within the first 1024 bytes), "late" (only after them), *)
(*   "no".                                                                 *)
(* A payload is what is encoded in base64: [enc, kind, w, h, srcW, srcH,   *)
(*   resampled]: enc is the encoder that made it ("png", "jpeg", "gif") or *)
(*   "raw" for the bytes as they came; w x h is the size of the embedded   *)
(*   image and srcW x srcH the size of the source.                         *)
(***************************************************************************)

ImagePng == <<"i", "m", "a", "g", "e", "/", "p", "n", "g">>
ImageJpeg == <<"i", "m", "a", "g", "e", "/", "j", "p", "e", "g">>
ImageGif == <<"i", "m", "a", "g", "e", "/", "g", "i", "f">>
ImageWebp == <<"i", "m", "a", "g", "e", "/", "w", "e", "b", "p">>
ImageSvg == <<"i", "m", "a", "g", "e", "/", "s", "v", "g", "+", "x", "m", "l">>
TextHtml == <<"t", "e", "x", "t", "/", "h", "t", "m", "l">>

\* strings.ToLower, on ASCII
LowerChar(c) ==
    CASE c = "A" -> "a" [] c = "B" -> "b" [] c = "C" -> "c" [] c = "D" -> "d"
      [] c = "E" -> "e" [] c = "F" -> "f" [] c = "G" -> "g" [] c = "H" ->
      "h" [] c = "I" -> "i" [] c = "J" -> "j" [] c = "K" -> "k" [] c = "L"
      -> "l" [] c = "M" -> "m" [] c = "N" -> "n" [] c = "O" -> "o" [] c =
      "P" -> "p" [] c = "Q" -> "q" [] c = "R" -> "r" [] c = "S" -> "s" [] c
      = "T" -> "t" [] c = "U" -> "u" [] c = "V" -> "v" [] c = "W" -> "w" []
      c = "X" -> "x" [] c = "Y" -> "y" [] c = "Z" -> "z"
      [] OTHER -> c
ToLower(s) == [i \in 1..Len(s) |-> LowerChar(s[i])]

\* "If no dimensions specified, check if image is larger than 200px"
DefaultMaxSize == 200

\* a resize to the requested width that keeps the source's proportions
resizeImageKeepRatio(srcWidth, srcHeight, targetWidth, targetHeight) ==
    [w |-> targetWidth, h |-> (targetWidth * srcHeight) \div srcWidth,
     resampled |-> TRUE]

\* The size of the image resizeImage returns for a source of srcWidth x
\* srcHeight.  int(float64(a) * float64(b) / float64(c)) is a * b \div c for
\* the non-negative values below 2^26 used here: the product is exact and
\* the correctly rounded quotient cannot reach the next integer.
resizeImage(srcWidth, srcHeight, targetWidth, targetHeight) ==
    IF targetWidth <= 0 /\ targetHeight <= 0
    THEN IF srcWidth > DefaultMaxSize \/ srcHeight > DefaultMaxSize
         THEN IF srcWidth > srcHeight
              THEN [w |-> DefaultMaxSize,
                    h |-> (DefaultMaxSize * srcHeight) \div srcWidth,
                    resampled |-> TRUE]
              ELSE [w |-> (DefaultMaxSize * srcWidth) \div srcHeight,
                    h |-> DefaultMaxSize,
                    resampled |-> TRUE]
         ELSE [w |-> srcWidth, h |-> srcHeight, resampled |-> FALSE]
    ELSE IF targetWidth > 0 /\ targetHeight = 0
         THEN [w |-> targetWidth,
               h |-> (targetWidth * srcHeight) \div srcWidth, resampled |-> TRUE]
         ELSE IF targetHeight > 0 /\ targetWidth = 0
              THEN [w |-> (targetHeight * srcWidth) \div srcHeight,
                    h |-> targetHeight, resampled |-> TRUE]
              ELSE [w |-> targetWidth, h |-> targetHeight, resampled |-> TRUE]

\* the decoders tried in order: PNG, JPEG, GIF, PPM; "" when none decodes
DecodeFormat(bytes) ==
    IF bytes.kind \in {"PNG", "JPEG", "GIF", "PPM"} THEN bytes.kind ELSE ""

\* an encoder choice that knows PNG and GIF and takes JPEG for the rest
EncoderOfJpegElse(format) ==
    CASE format = "PNG" -> "png"
      [] format = "GIF" -> "gif"
      [] OTHER -> "jpeg"

\* the encoder chosen by the switch on strings.ToUpper(format)
EncoderOf(format) ==
    CASE format = "PNG" -> "png"
      [] format = "GIF" -> "gif"
      [] format = "PPM" -> "png"
      [] OTHER -> "jpeg"

MimeOf(encoder) ==
    CASE encoder = "png" -> ImagePng
      [] encoder = "gif" -> ImageGif
      [] OTHER -> ImageJpeg

\* png.Encode rejects an empty image; jpeg.Encode and gif.Encode reject a
\* side of 65536 or more
EncodeFails(encoder, w, h) ==
    IF encoder = "png" THEN w <= 0 \/ h <= 0
    ELSE w >= 65536 \/ h >= 65536

\* base64.StdEncoding.EncodeToString: the text stands for the encoding of
\* the payload and starts as the encoding of the format's first bytes does
EncodeToString(payload) ==
    CASE payload.enc = "png" -> <<"i", "V", "B", "O", "R", "w", "0", "K", "G", "g", "o", "A", "A", "A", "A", "N">>
      [] payload.enc = "jpeg" -> <<"/", "9", "j", "/", "4", "A", "A", "Q", "S", "k", "Z", "J", "R", "g", "A", "B">>
      [] payload.enc = "gif" -> <<"R", "0", "l", "G", "O", "D", "l", "h", "A", "Q", "A", "B", "A", "A", "A", "A">>
      [] payload.kind \in {"PNG", "BADPNG"} -> <<"i", "V", "B", "O", "R", "w", "0", "K", "G", "g", "o", "A", "A", "A", "A", "N">>
      [] payload.kind \in {"JPEG", "BADJPEG"} -> <<"/", "9", "j", "/", "4", "A", "A", "Q", "S", "k", "Z", "J", "R", "g", "A", "B">>
      [] payload.kind = "GIF" -> <<"R", "0", "l", "G", "O", "D", "l", "h", "A", "Q", "A", "B", "A", "A", "A", "A">>
      [] payload.kind = "PPM" -> <<"U", "D", "Y", "K", "M", "S", "A", "x", "C", "j", "I", "1", "N", "Q", "o", "=">>
      [] payload.kind = "SVG" -> <<"P", "H", "N", "2", "Z", "w", "=", "=">>
      [] payload.kind = "WEBP" -> <<"U", "k", "l", "G", "R", "g", "=", "=">>
      [] payload.kind = "" -> <<>>
      [] OTHER -> <<"P", "G", "h", "0", "b", "W", "w", "+">>

\* the payload that is the bytes as they are
Raw(bytes) == [enc |-> "raw", kind |-> bytes.kind, w |-> bytes.w, h |-> bytes.h,
               srcW |-> bytes.w, srcH |-> bytes.h, resampled |-> FALSE]

Failure == [err |-> TRUE, base64Data |-> <<>>, mimeType |-> <<>>,
            payload |-> [enc |-> "none", kind |-> "", w |-> 0, h |-> 0,
                         srcW |-> 0, srcH |-> 0, resampled |-> FALSE]]

Success(payload, mimeType) ==
    [err |-> FALSE, base64Data |-> EncodeToString(payload), mimeType |-> mimeType,
     payload |-> payload]

\* decode succeeded with `format`: resize when asked to, then encode
Reencode(bytes, format, resize, targetWidth, targetHeight) ==
    LET size == IF resize
                THEN resizeImage(bytes.w, bytes.h, targetWidth, targetHeight)
                ELSE [w |-> bytes.w, h |-> bytes.h, resampled |-> FALSE]
        encoder == EncoderOf(format)
    IN  IF EncodeFails(encoder, size.w, size.h) THEN Failure
        ELSE Success([enc |-> encoder, kind |-> bytes.kind, w |-> size.w,
                      h |-> size.h, srcW |-> bytes.w, srcH |-> bytes.h,
                      resampled |-> size.resampled],
                     MimeOf(encoder))

\* url.Parse(str) returns no error; for the locators a reference can hold
\* it fails on an ASCII control character
UrlParseOK(str) == \A i \in 1..Len(str) : str[i] \notin {"\t", "\n", "\r", "\f"}

\* a test that takes every scheme followed by :// for a URL
isURLAnyScheme(str) ==
    UrlParseOK(str) /\ Contains(str, <<":", "/", "/">>)

isURL(str) ==
    /\ UrlParseOK(str)
    /\ \/ HasPrefix(str, <<"h", "t", "t", "p", ":", "/", "/">>)
       \/ HasPrefix(str, <<"h", "t", "t", "p", "s", ":", "/", "/">>)

\* "Fallback: try to determine from URL extension"
MimeFromURL(imageURL) ==
    LET u == ToLower(imageURL)
    IN  IF HasSuffix(u, <<".", "p", "n", "g">>) THEN ImagePng
        ELSE IF HasSuffix(u, <<".", "j", "p", "g">>) \/ HasSuffix(u, <<".", "j", "p", "e", "g">>) THEN ImageJpeg
        ELSE IF HasSuffix(u, <<".", "g", "i", "f">>) THEN ImageGif
        ELSE IF HasSuffix(u, <<".", "w", "e", "b", "p">>) THEN ImageWebp
        ELSE IF HasSuffix(u, <<".", "s", "v", "g">>) THEN ImageSvg
        ELSE ImageJpeg

\* a test that lets every status below 500 through
StatusBelow500(status) == status < 500

\* resp.StatusCode != http.StatusOK is an error
StatusOK(status) == status = 200

\* resp is the outcome of the request: [fails, status, contentType, body]
downloadAndEncodeExternalImage(imageURL, targetWidth, targetHeight, resp) ==
    IF resp.fails \/ ~StatusOK(resp.status) THEN Failure
    ELSE LET imageData == resp.body
             mimeType == IF resp.contentType = <<>> THEN MimeFromURL(imageURL)
                         ELSE resp.contentType
             format == DecodeFormat(imageData)
         IN  IF mimeType = ImageSvg \/ imageData.svg # "no"
             THEN Success(Raw(imageData), ImageSvg)
             ELSE IF targetWidth > 0 /\ targetHeight > 0
                  THEN IF format # ""
                       THEN Reencode(imageData, format, TRUE, targetWidth, targetHeight)
                       ELSE IF imageData.kind = "BADPNG"
                            THEN Success(Raw(imageData), ImagePng)
                            ELSE IF imageData.kind = "BADJPEG"
                                 THEN Success(Raw(imageData), ImageJpeg)
                                 ELSE Success(Raw(imageData), mimeType)
                  ELSE Success(Raw(imageData), mimeType)

\* a local materialization that hands every decoded image to resizeImage
imageToBase64LocalAlwaysResize(targetWidth, targetHeight, file) ==
    IF ~file.exists THEN Failure
    ELSE LET format == DecodeFormat(file.bytes)
         IN  IF format = ""
             THEN IF file.bytes.svg = "head"
                  THEN Success(Raw(file.bytes), ImageSvg)
                  ELSE Failure
             ELSE Reencode(file.bytes, format, TRUE, targetWidth, targetHeight)

\* file is what os.Open finds at the path: [exists, bytes]
imageToBase64Local(targetWidth, targetHeight, file) ==
    IF ~file.exists THEN Failure
    ELSE LET format == DecodeFormat(file.bytes)
         IN  IF format = ""
             THEN IF file.bytes.svg = "head"
                  THEN Success(Raw(file.bytes), ImageSvg)     \* handleSVGImage
                  ELSE Failure
             ELSE Reencode(file.bytes, format, targetWidth > 0 /\ targetHeight > 0,
                           targetWidth, targetHeight)

\* world is what the path names when the call is made: a file or a response
imageToBase64(imagePath, targetWidth, targetHeight, world) ==
    IF isURL(imagePath)
    THEN downloadAndEncodeExternalImage(imagePath, targetWidth, targetHeight, world)
    ELSE imageToBase64Local(targetWidth, targetHeight, world)


(***************************************************************************)
(* Documents: the image elements the scanner's expressions are about, and  *)
(* the texts made of a few of them                                         *)
(***************************************************************************)

\* ![a](p)
MdBare ==
    <<"!", "[", "a", "]", "(", "p", ")">>

\* ![b](q){: width=5 height=2}
MdSized ==
    <<"!", "[", "b", "]", "(", "q", ")", "{", ":", " ", "w", "i", "d", "t",
    "h", "=", "5", " ", "h", "e", "i", "g", "h", "t", "=", "2", "}">>

\* ![a](p){: width=50 height=0}
MdWidthZeroHeight ==
    <<"!", "[", "a", "]", "(", "p", ")", "{", ":", " ", "w", "i", "d", "t",
    "h", "=", "5", "0", " ", "h", "e", "i", "g", "h", "t", "=", "0", "}">>

\* ![a](p){: width=5}
MdWidthOnly ==
    <<"!", "[", "a", "]", "(", "p", ")", "{", ":", " ", "w", "i", "d", "t",
    "h", "=", "5", "}">>

\* ![a](p){: height=5}
MdHeightOnly ==
    <<"!", "[", "a", "]", "(", "p", ")", "{", ":", " ", "h", "e", "i", "g",
    "h", "t", "=", "5", "}">>

\* ![a](p =5x2)
MdNew ==
    <<"!", "[", "a", "]", "(", "p", " ", "=", "5", "x", "2", ")">>

\* ![](pppppppppppppppppppppppppppppppppppp)
MdLong ==
    <<"!", "[", "]", "(", "p", "p", "p", "p", "p", "p", "p", "p", "p", "p",
    "p", "p", "p", "p", "p", "p", "p", "p", "p", "p", "p", "p", "p", "p",
    "p", "p", "p", "p", "p", "p", "p", "p", "p", "p", "p", "p", ")">>

\* ![a](http://h/p.png)
MdRemote ==
    <<"!", "[", "a", "]", "(", "h", "t", "t", "p", ":", "/", "/", "h", "/",
    "p", ".", "p", "n", "g", ")">>

\* <img src="p" alt="a">
HtmlSimple ==
    <<"<", "i", "m", "g", " ", "s", "r", "c", "=", "\"", "p", "\"", " ",
    "a", "l", "t", "=", "\"", "a", "\"", ">">>

\* <img src="q" alt="b" width="5" height="2">
HtmlSized ==
    <<"<", "i", "m", "g", " ", "s", "r", "c", "=", "\"", "q", "\"", " ",
    "a", "l", "t", "=", "\"", "b", "\"", " ", "w", "i", "d", "t", "h", "=",
    "\"", "5", "\"", " ", "h", "e", "i", "g", "h", "t", "=", "\"", "2",
    "\"", ">">>

\* <img alt="a" src="p">
HtmlAltFirst ==
    <<"<", "i", "m", "g", " ", "a", "l", "t", "=", "\"", "a", "\"", " ",
    "s", "r", "c", "=", "\"", "p", "\"", ">">>

\* <img src="p" alt="a" height="2" width="5">
HtmlHeightFirst ==
    <<"<", "i", "m", "g", " ", "s", "r", "c", "=", "\"", "p", "\"", " ",
    "a", "l", "t", "=", "\"", "a", "\"", " ", "h", "e", "i", "g", "h", "t",
    "=", "\"", "2", "\"", " ", "w", "i", "d", "t", "h", "=", "\"", "5",
    "\"", ">">>

\* <img src="p" alt="![b](q)">
HtmlNested ==
    <<"<", "i", "m", "g", " ", "s", "r", "c", "=", "\"", "p", "\"", " ",
    "a", "l", "t", "=", "\"", "!", "[", "b", "]", "(", "q", ")", "\"", ">">>

\* <img src="p" alt="x](q) ![y">
HtmlInject ==
    <<"<", "i", "m", "g", " ", "s", "r", "c", "=", "\"", "p", "\"", " ",
    "a", "l", "t", "=", "\"", "x", "]", "(", "q", ")", " ", "!", "[", "y",
    "\"", ">">>

\* ![a](data:x)
MdData ==
    <<"!", "[", "a", "]", "(", "d", "a", "t", "a", ":", "x", ")">>

\* ![a](data:x){: width=5 height=2}
MdSizedData ==
    <<"!", "[", "a", "]", "(", "d", "a", "t", "a", ":", "x", ")", "{", ":",
    " ", "w", "i", "d", "t", "h", "=", "5", " ", "h", "e", "i", "g", "h",
    "t", "=", "2", "}">>

\* ![a](data:x =5x2)
MdNewData ==
    <<"!", "[", "a", "]", "(", "d", "a", "t", "a", ":", "x", " ", "=", "5",
    "x", "2", ")">>

\* <img src="data:x" alt="a">
HtmlSimpleData ==
    <<"<", "i", "m", "g", " ", "s", "r", "c", "=", "\"", "d", "a", "t", "a",
    ":", "x", "\"", " ", "a", "l", "t", "=", "\"", "a", "\"", ">">>

\* <img src="data:x" alt="a" width="5" height="2">
HtmlSizedData ==
    <<"<", "i", "m", "g", " ", "s", "r", "c", "=", "\"", "d", "a", "t", "a",
    ":", "x", "\"", " ", "a", "l", "t", "=", "\"", "a", "\"", " ", "w", "i",
    "d", "t", "h", "=", "\"", "5", "\"", " ", "h", "e", "i", "g", "h", "t",
    "=", "\"", "2", "\"", ">">>

\* x 
PlainText ==
    <<"x", " ">>

\* the elements of the documents that are rewritten
Elements ==
    {MdBare, MdSized, MdWidthZeroHeight, MdLong, MdRemote, HtmlSimple, HtmlSized,
     HtmlInject, MdData, PlainText}

\* the elements of the documents that are scanned
ScanElements ==
    Elements \cup
    {MdWidthOnly, MdHeightOnly, MdNew, HtmlAltFirst, HtmlHeightFirst, HtmlNested,
     MdSizedData, MdNewData, HtmlSimpleData, HtmlSizedData}

\* the number of elements of the longest document
MaxElements == 2

RECURSIVE TextsOf(_, _)
TextsOf(elements, n) ==
    IF n = 0 THEN {<<>>}
    ELSE LET shorter == TextsOf(elements, n - 1)
         IN  shorter \cup {t \o e : t \in shorter, e \in elements}

Documents == TextsOf(Elements, MaxElements) \ {<<>>}

ScanDocuments == TextsOf(ScanElements, MaxElements) \ {<<>>}

(***************************************************************************)
(* What a locator can name when it is materialized                         *)
(***************************************************************************)

Bytes(kind, w, h, svg) == [kind |-> kind, w |-> w, h |-> h, svg |-> svg]

Files ==
    { [exists |-> FALSE, bytes |-> Bytes("", 0, 0, "no")],
      [exists |-> TRUE, bytes |-> Bytes("PNG", 200, 100, "no")],
      [exists |-> TRUE, bytes |-> Bytes("SVG", 0, 0, "head")],
      [exists |-> TRUE, bytes |-> Bytes("HTML", 0, 0, "no")] }

Responses ==
    { [fails |-> TRUE, status |-> 0, contentType |-> <<>>,
       body |-> Bytes("", 0, 0, "no")],
      [fails |-> FALSE, status |-> 404, contentType |-> TextHtml,
       body |-> Bytes("HTML", 0, 0, "no")],
      [fails |-> FALSE, status |-> 200, contentType |-> ImagePng,
       body |-> Bytes("PNG", 200, 100, "no")],
      [fails |-> FALSE, status |-> 200, contentType |-> <<>>,
       body |-> Bytes("JPEG", 100, 200, "no")] }

\* the host of a URL that begins with http:// or https://: what stands
\* between the two slashes and the next one
HostOf(imageURL) ==
    LET from == IF HasPrefix(imageURL, <<"h", "t", "t", "p", "s">>) THEN 8 ELSE 7
        rest == Slice(imageURL, from, Len(imageURL))
        stop == IF \E i \in 1..Len(rest) : rest[i] = "/"
                THEN (CHOOSE i \in 1..Len(rest) :
                        rest[i] = "/" /\ \A j \in 1..(i - 1) : rest[j] # "/") - 1
                ELSE Len(rest)
    IN  Slice(rest, 0, stop)

\* processMarkdown hands a URL to the download and any other locator, joined
\* to baseDir, to os.Open; client.Do sends no request for a URL without a
\* host and returns an error
WorldsIn(imagePath, files, responses) ==
    IF isURL(imagePath)
    THEN IF HostOf(imagePath) = <<>> THEN {r \in responses : r.fails}
         ELSE responses
    ELSE files

Worlds(imagePath) == WorldsIn(imagePath, Files, Responses)

(***************************************************************************)
(* The Splicer: processMarkdown                                            *)
(***************************************************************************)

VARIABLES
    content,    \* the text processMarkdown is given
    pc,         \* "start", "loop", "done", or "panic" (a slice out of range)
    imageRefs,  \* the references found in content
    next,       \* the index in imageRefs of the reference the loop is at
    result,     \* the text being rewritten
    offset,     \* "Track position adjustments due to replacements"
    outcomes,   \* what imageToBase64 returned for each reference processed
    worlds,     \* the path of each of these calls, what it named then, and
                \* what the call did with the bytes
    run,        \* 1: on a document; 2: on the text the first run returned
    first       \* the first run, once it is over: [refs, outcomes, result]

vars == <<content, pc, imageRefs, next, result, offset, outcomes, worlds, run,
         first>>

NoRun == [refs |-> <<>>, outcomes |-> <<>>, result |-> <<>>]

Init ==
    /\ content \in Documents
    /\ pc = "start"
    /\ imageRefs = <<>>
    /\ next = 1
    /\ result = <<>>
    /\ offset = 0
    /\ outcomes = <<>>
    /\ worlds = <<>>
    /\ run = 1
    /\ first = NoRun

\* imageRefs := findImageReferences(content); result := content; offset := 0
Scan ==
    /\ pc = "start"
    /\ imageRefs' = findImageReferences(content)
    /\ result' = content
    /\ offset' = 0
    /\ next' = 1
    /\ pc' = "loop"
    /\ UNCHANGED <<content, outcomes, worlds, run, first>>

\* fmt.Sprintf("![%s](data:%s;base64,%s)", imgRef.AltText, mimeType, base64Data)
NewImageRef(altText, mimeType, base64Data) ==
    <<"!", "[">> \o altText \o <<"]", "(", "d", "a", "t", "a", ":">> \o mimeType
        \o <<";", "b", "a", "s", "e", "6", "4", ",">> \o base64Data \o <<")">>

\* s[a:b] panics unless 0 <= a <= b <= len(s)
SliceOK(s, a, b) == 0 <= a /\ a <= b /\ b <= Len(s)

\* what imageToBase64 does with the bytes it gets, in the order it does it:
\* "decode" is the loop over the decoders, "svg" the search for "<svg"
Classification(imagePath, targetWidth, targetHeight, world) ==
    IF isURL(imagePath)
    THEN IF world.fails \/ ~StatusOK(world.status) THEN <<>>
         ELSE LET mimeType == IF world.contentType = <<>> THEN MimeFromURL(imagePath)
                              ELSE world.contentType
              IN  IF mimeType = ImageSvg THEN <<>>     \* || does not search
                  ELSE IF world.body.svg # "no" THEN <<"svg">>
                  ELSE IF targetWidth > 0 /\ targetHeight > 0
                       THEN <<"svg", "decode">>
                       ELSE <<"svg">>
    ELSE IF ~world.exists THEN <<>>
         ELSE IF DecodeFormat(world.bytes) = "" THEN <<"decode", "svg">>
              ELSE <<"decode">>

\* the directory of the input file
BaseDir == <<"d">>

\* path.Clean's "replace multiple slashes with a single slash"
RECURSIVE CollapseSlashes(_)
CollapseSlashes(s) ==
    IF Len(s) < 2 THEN s
    ELSE IF s[1] = "/" /\ s[2] = "/" THEN CollapseSlashes(Tail(s))
         ELSE <<s[1]>> \o CollapseSlashes(Tail(s))

\* filepath.Join(baseDir, imagePath), for a path with no . or .. element
\* and no slash at its end
Join(baseDir, imagePath) == CollapseSlashes(baseDir \o <<"/">> \o imagePath)

\* "Determine the full path for the image"
FullImagePath(imagePath) ==
    IF isURL(imagePath) THEN imagePath ELSE Join(BaseDir, imagePath)

\* one iteration of the loop over imageRefs, where a path names one of
\* these files or one of these responses
ProcessRefIn(files, responses) ==
    /\ pc = "loop"
    /\ next <= Len(imageRefs)
    /\ LET imgRef == imageRefs[next]
           fullImagePath == FullImagePath(imgRef.ImagePath) IN
       \E world \in WorldsIn(fullImagePath, files, responses) :
         LET out == imageToBase64(fullImagePath, imgRef.Width, imgRef.Height, world)
             newImageRef == NewImageRef(imgRef.AltText, out.mimeType, out.base64Data)
             adjustedStart == imgRef.StartPos + offset
             adjustedEnd == imgRef.EndPos + offset
         IN  /\ outcomes' = Append(outcomes, out)
             /\ worlds' = Append(worlds,
                    [path |-> fullImagePath, named |-> world,
                     steps |-> Classification(fullImagePath, imgRef.Width,
                                              imgRef.Height, world)])
             /\ IF out.err
                THEN /\ next' = next + 1                 \* continue
                     /\ UNCHANGED <<result, offset, pc>>
                ELSE IF /\ SliceOK(result, 0, adjustedStart)
                        /\ SliceOK(result, adjustedEnd, Len(result))
                     THEN /\ result' = Slice(result, 0, adjustedStart) \o newImageRef
                                         \o Slice(result, adjustedEnd, Len(result))
                          /\ offset' = offset + Len(newImageRef)
                                         - (imgRef.EndPos - imgRef.StartPos)
                          /\ next' = next + 1
                          /\ UNCHANGED pc
                     ELSE /\ pc' = "panic"
                          /\ UNCHANGED <<result, offset, next>>
    /\ UNCHANGED <<content, imageRefs, run, first>>

ProcessRef == ProcessRefIn(Files, Responses)

\* a return that gives up the output when some materialization failed:
\* return "", err
ReturnErrorOnFailure ==
    /\ pc = "loop"
    /\ next > Len(imageRefs)
    /\ pc' = "done"
    /\ result' = IF \E n \in 1..Len(outcomes) : outcomes[n].err THEN <<>> ELSE result
    /\ UNCHANGED <<content, imageRefs, next, offset, outcomes, worlds, run, first>>

\* return result, nil
Return ==
    /\ pc = "loop"
    /\ next > Len(imageRefs)
    /\ pc' = "done"
    /\ UNCHANGED <<content, imageRefs, next, result, offset, outcomes, worlds, run,
                   first>>

\* processMarkdown is given the text that its first run returned after it
\* embedded every reference of the document
Again ==
    /\ pc = "done"
    /\ run = 1
    /\ imageRefs # <<>>
    /\ \A n \in 1..Len(outcomes) : ~outcomes[n].err
    /\ first' = [refs |-> imageRefs, outcomes |-> outcomes, result |-> result]
    /\ content' = result
    /\ run' = 2
    /\ pc' = "start"
    /\ imageRefs' = <<>>
    /\ next' = 1
    /\ result' = <<>>
    /\ offset' = 0
    /\ outcomes' = <<>>
    /\ worlds' = <<>>

Next == Scan \/ ProcessRef \/ Return \/ Again

Spec == Init /\ [][Next]_vars

\* the Scanner alone, on more documents
ScanInit ==
    /\ content \in ScanDocuments
    /\ pc = "start"
    /\ imageRefs = <<>>
    /\ next = 1
    /\ result = <<>>
    /\ offset = 0
    /\ outcomes = <<>>
    /\ worlds = <<>>
    /\ run = 1
    /\ first = NoRun

ScanNext == Scan

SpecScan == ScanInit /\ [][ScanNext]_vars


(***************************************************************************)
(* The Materializer under processMarkdown: documents of one image, and     *)
(* more of what its locator can name                                       *)
(***************************************************************************)

\* ![a](p){: width=10 height=10}
MdExact ==
    <<"!", "[", "a", "]", "(", "p", ")", "{", ":", " ", "w", "i", "d", "t",
    "h", "=", "1", "0", " ", "h", "e", "i", "g", "h", "t", "=", "1", "0",
    "}">>

\* ![a](p){: width=0 height=50}
MdZeroWidthHeight ==
    <<"!", "[", "a", "]", "(", "p", ")", "{", ":", " ", "w", "i", "d", "t",
    "h", "=", "0", " ", "h", "e", "i", "g", "h", "t", "=", "5", "0", "}">>

\* ![a](http://h/p){: width=10 height=10}
MdRemoteExact ==
    <<"!", "[", "a", "]", "(", "h", "t", "t", "p", ":", "/", "/", "h", "/",
    "p", ")", "{", ":", " ", "w", "i", "d", "t", "h", "=", "1", "0", " ",
    "h", "e", "i", "g", "h", "t", "=", "1", "0", "}">>

\* ![a](http://h/p){: width=50 height=0}
MdRemoteWidth ==
    <<"!", "[", "a", "]", "(", "h", "t", "t", "p", ":", "/", "/", "h", "/",
    "p", ")", "{", ":", " ", "w", "i", "d", "t", "h", "=", "5", "0", " ",
    "h", "e", "i", "g", "h", "t", "=", "0", "}">>

\* ![a](http://h/p.svg)
MdRemoteSvg ==
    <<"!", "[", "a", "]", "(", "h", "t", "t", "p", ":", "/", "/", "h", "/",
    "p", ".", "s", "v", "g", ")">>

\* ![a](ftp://h/p)
MdFtp ==
    <<"!", "[", "a", "]", "(", "f", "t", "p", ":", "/", "/", "h", "/", "p",
    ")">>

\* ![a](http:///p)
MdNoHost ==
    <<"!", "[", "a", "]", "(", "h", "t", "t", "p", ":", "/", "/", "/", "p",
    ")">>

\* ![a](http://h/<tab>p)
MdTabInUrl ==
    <<"!", "[", "a", "]", "(", "h", "t", "t", "p", ":", "/", "/", "h", "/",
    "\t", "p", ")">>

MatDocuments ==
    {MdBare, MdExact, MdWidthZeroHeight, MdZeroWidthHeight, MdRemote,
     MdRemoteExact, MdRemoteWidth, MdRemoteSvg, MdFtp, MdNoHost, MdTabInUrl}

File(kind, w, h, svg) == [exists |-> TRUE, bytes |-> Bytes(kind, w, h, svg)]

\* w and h of SVG bytes are the width and height attributes of the markup,
\* 0 for none; svg says where the bytes hold "<svg": in the first 1024
\* ("head"), after them ("tail"), or nowhere ("no")
MatFiles ==
    { [exists |-> FALSE, bytes |-> Bytes("", 0, 0, "no")],
      File("PNG", 200, 100, "no"), File("PNG", 800, 400, "no"),
      File("PNG", 300, 1000, "no"), File("PNG", 200, 100, "head"),
      File("JPEG", 200, 100, "no"), File("GIF", 200, 100, "no"),
      File("PPM", 200, 100, "no"), File("WEBP", 200, 100, "no"),
      File("BADPNG", 0, 0, "no"), File("HTML", 0, 0, "no"),
      File("SVG", 100, 100, "head"), File("SVG", 0, 0, "head"),
      File("SVG", 100, 100, "tail") }

Response(status, contentType, kind, w, h, svg) ==
    [fails |-> FALSE, status |-> status, contentType |-> contentType,
     body |-> Bytes(kind, w, h, svg)]

MatResponses ==
    { [fails |-> TRUE, status |-> 0, contentType |-> <<>>,
       body |-> Bytes("", 0, 0, "no")],
      Response(404, TextHtml, "HTML", 0, 0, "no"),
      Response(404, ImagePng, "PNG", 200, 100, "no"),
      Response(500, <<>>, "", 0, 0, "no"),
      Response(304, ImagePng, "", 0, 0, "no"),
      Response(206, ImagePng, "PNG", 200, 100, "no"),
      Response(200, ImagePng, "PNG", 200, 100, "no"),
      Response(200, ImagePng, "PNG", 800, 400, "no"),
      Response(200, ImagePng, "PNG", 200, 100, "tail"),
      Response(200, ImagePng, "JPEG", 200, 100, "no"),
      Response(200, ImageSvg, "PNG", 200, 100, "no"),
      Response(200, ImageSvg, "SVG", 100, 100, "head"),
      Response(200, <<>>, "SVG", 100, 100, "head"),
      Response(200, <<>>, "JPEG", 100, 200, "no"),
      Response(200, <<>>, "PPM", 200, 100, "no"),
      Response(200, ImageGif, "GIF", 200, 100, "no"),
      Response(200, <<>>, "BADPNG", 0, 0, "no"),
      Response(200, TextHtml, "HTML", 0, 0, "no") }

MatInit ==
    /\ content \in MatDocuments
    /\ pc = "start"
    /\ imageRefs = <<>>
    /\ next = 1
    /\ result = <<>>
    /\ offset = 0
    /\ outcomes = <<>>
    /\ worlds = <<>>
    /\ run = 1
    /\ first = NoRun

MatProcessRef == ProcessRefIn(MatFiles, MatResponses)

MatNext == Scan \/ MatProcessRef \/ Return

SpecMat == MatInit /\ [][MatNext]_vars

(***************************************************************************)
(* updateSVGDimensions, of the second implementation                       *)
(***************************************************************************)

\* width=["']([^"']+)["']
widthRegex ==
    << Lit(<<"w", "i", "d", "t", "h", "=">>), One(Quote), Mark(2),
       Plus(TRUE, Quote), Mark(3), One(Quote) >>

\* height=["']([^"']+)["']
heightRegex ==
    << Lit(<<"h", "e", "i", "g", "h", "t", "=">>), One(Quote), Mark(2),
       Plus(TRUE, Quote), Mark(3), One(Quote) >>

\* fmt.Sprintf("%d", n) for n >= 0
RECURSIVE Itoa(_)
Itoa(n) ==
    LET last == <<CHOOSE c \in Digit : DigitVal(c) = n % 10>>
    IN  IF n < 10 THEN last ELSE Itoa(n \div 10) \o last

\* src with the matches from the k-th on replaced by repl, from cursor on
RECURSIVE ReplaceFrom(_, _, _, _, _)
ReplaceFrom(src, matches, repl, k, cursor) ==
    IF k > Len(matches) THEN Slice(src, cursor, Len(src))
    ELSE Slice(src, cursor, matches[k][0]) \o repl
             \o ReplaceFrom(src, matches, repl, k + 1, matches[k][1])

\* Regexp.ReplaceAllString(src, repl) for a repl without $
ReplaceAllString(re, src, repl) ==
    ReplaceFrom(src, FindAllStringSubmatchIndex(re, 1, src), repl, 1, 0)

\* fmt.Sprintf(`width="%d"`, n), and the same for height
Attribute(name, n) == name \o <<"=", "\"">> \o Itoa(n) \o <<"\"">>

updateSVGDimensions(svg, targetWidth, targetHeight) ==
    LET widthDone ==
            IF targetWidth > 0
            THEN ReplaceAllString(widthRegex, svg,
                                  Attribute(<<"w", "i", "d", "t", "h">>, targetWidth))
            ELSE svg
    IN  IF targetHeight > 0
        THEN ReplaceAllString(heightRegex, widthDone,
                              Attribute(<<"h", "e", "i", "g", "h", "t">>, targetHeight))
        ELSE widthDone

\* <svg width="100" height="100"/>
SvgSized ==
    <<"<", "s", "v", "g", " ", "w", "i", "d", "t", "h", "=", "\"", "1", "0",
    "0", "\"", " ", "h", "e", "i", "g", "h", "t", "=", "\"", "1", "0", "0",
    "\"", "/", ">">>

\* <svg width="100" height="100"><c stroke-width="4"/></svg>
SvgStroke ==
    <<"<", "s", "v", "g", " ", "w", "i", "d", "t", "h", "=", "\"", "1", "0",
    "0", "\"", " ", "h", "e", "i", "g", "h", "t", "=", "\"", "1", "0", "0",
    "\"", ">", "<", "c", " ", "s", "t", "r", "o", "k", "e", "-", "w", "i",
    "d", "t", "h", "=", "\"", "4", "\"", "/", ">", "<", "/", "s", "v", "g",
    ">">>

\* <svg viewBox="0 0 1 1"/>
SvgViewBox ==
    <<"<", "s", "v", "g", " ", "v", "i", "e", "w", "B", "o", "x", "=", "\"",
    "0", " ", "0", " ", "1", " ", "1", "\"", "/", ">">>

\* <svg width='1' line-height="2"/>
SvgLineHeight ==
    <<"<", "s", "v", "g", " ", "w", "i", "d", "t", "h", "=", "'", "1", "'",
    " ", "l", "i", "n", "e", "-", "h", "e", "i", "g", "h", "t", "=", "\"",
    "2", "\"", "/", ">">>

\* <svg height="100"/>
SvgHeightOnly ==
    <<"<", "s", "v", "g", " ", "h", "e", "i", "g", "h", "t", "=", "\"", "1",
    "0", "0", "\"", "/", ">">>

\* <svg><t>x</t></svg>
SvgText ==
    <<"<", "s", "v", "g", ">", "<", "t", ">", "x", "<", "/", "t", ">", "<",
    "/", "s", "v", "g", ">">>

SvgMarkups ==
    {SvgSized, SvgStroke, SvgViewBox, SvgLineHeight, SvgHeightOnly, SvgText}

SvgWidths == {0, 5, 50, 200}

SvgHeights == {0, 7, 300}

\* a reference that asks for width x height names the markup in content
SvgInit ==
    /\ content \in SvgMarkups
    /\ \E width \in SvgWidths, height \in SvgHeights :
          imageRefs = <<ImageReference(<<>>, <<>>, <<>>, 0, 0, width, height, FALSE)>>
    /\ pc = "start"
    /\ next = 1
    /\ result = <<>>
    /\ offset = 0
    /\ outcomes = <<>>
    /\ worlds = <<>>
    /\ run = 1
    /\ first = NoRun

\* content = updateSVGDimensions(content, ref.Width, ref.Height)
UpdateSvg ==
    /\ pc = "start"
    /\ result' = updateSVGDimensions(content, imageRefs[1].Width, imageRefs[1].Height)
    /\ pc' = "done"
    /\ UNCHANGED <<content, imageRefs, next, offset, outcomes, worlds, run, first>>

SvgNext == UpdateSvg

SpecSvg == SvgInit /\ [][SvgNext]_vars


(***************************************************************************)
(* resizeImage on its own                                                  *)
(***************************************************************************)

SourceSides == {1, 2, 3, 100, 200, 300}

TargetSides == {0, 1, 50, 400}

\* a decoded image of any of the sizes, named by a reference that asks for
\* any of the widths and heights
ResizeInit ==
    /\ content = <<>>
    /\ \E width \in TargetSides, height \in TargetSides :
          imageRefs = <<ImageReference(<<>>, <<>>, <<>>, 0, 0, width, height, FALSE)>>
    /\ \E srcWidth \in SourceSides, srcHeight \in SourceSides :
          worlds = <<Bytes("PNG", srcWidth, srcHeight, "no")>>
    /\ pc = "start"
    /\ next = 1
    /\ result = <<>>
    /\ offset = 0
    /\ outcomes = <<>>
    /\ run = 1
    /\ first = NoRun

\* img = resizeImage(img, targetWidth, targetHeight)
ResizeImage ==
    /\ pc = "start"
    /\ result' = resizeImage(worlds[1].w, worlds[1].h,
                             imageRefs[1].Width, imageRefs[1].Height)
    /\ pc' = "done"
    /\ UNCHANGED <<content, imageRefs, next, offset, outcomes, worlds, run, first>>

ResizeNext == ResizeImage

SpecResize == ResizeInit /\ [][ResizeNext]_vars

(***************************************************************************)
(* Properties                                                              *)
(***************************************************************************)

Range(f) == {f[x] : x \in DOMAIN f}

Succeeded == {n \in 1..Len(outcomes) : ~outcomes[n].err}

\* the text a reference is to be replaced by, given what its materialization
\* returned: the data-URL image, or the reference's own text on failure
Replacement(ref, out) ==
    IF out.err THEN ref.FullMatch
    ELSE NewImageRef(ref.AltText, out.mimeType, out.base64Data)

Sorted(refs) ==
    \A m, n \in 1..Len(refs) : m < n => refs[m].StartPos <= refs[n].StartPos

Disjoint(refs) ==
    \A m, n \in 1..Len(refs) :
        m # n => refs[m].EndPos <= refs[n].StartPos \/ refs[n].EndPos <= refs[m].StartPos

\* text with the references numbered in `todo` replaced at their spans, from
\* offset `cursor` on, in increasing order of their starts
RECURSIVE SpliceFrom(_, _, _, _, _)
SpliceFrom(text, refs, outs, todo, cursor) ==
    IF todo = {} THEN Slice(text, cursor, Len(text))
    ELSE LET n == CHOOSE a \in todo :
                      \A b \in todo : refs[a].StartPos <= refs[b].StartPos
         IN  Slice(text, cursor, refs[n].StartPos) \o Replacement(refs[n], outs[n])
                 \o SpliceFrom(text, refs, outs, todo \ {n}, refs[n].EndPos)

DataUrlOpen == <<"]", "(", "d", "a", "t", "a", ":">>

ImgOpen == <<"<", "i", "m", "g">>

\* C1: when processMarkdown returns, the text of every reference whose
\* materialization failed is in the output as it was, and the output holds
\* one more data-URL image per reference whose materialization succeeded.
C1_FailuresKeptSuccessesEmbedded ==
    pc = "done" =>
        /\ \A n \in 1..Len(outcomes) :
              outcomes[n].err => Contains(result, imageRefs[n].FullMatch)
        /\ Count(result, DataUrlOpen)
              = Count(content, DataUrlOpen) + Cardinality(Succeeded)

\* C2: when processMarkdown returns, the output is the document with each
\* reference replaced at its own span (by its data-URL image, or by its own
\* text on failure) and every other character kept, in order.
C2_ReplacedAtOriginalSpans ==
    pc = "done" /\ Disjoint(imageRefs) =>
        result = SpliceFrom(content, imageRefs, outcomes, 1..Len(imageRefs), 0)

\* C3: the list findImageReferences returns is sorted by start and its spans
\* do not overlap.
C3_SortedDisjointSpans ==
    pc # "start" => Sorted(imageRefs) /\ Disjoint(imageRefs)

\* C4: processMarkdown never aborts on a slice out of range.
C4_NeverPanics == pc # "panic"

\* C5: no reference of the list findImageReferences returns has a locator
\* that begins with data:.
C5_NoDataLocator ==
    pc # "start" =>
        \A n \in 1..Len(imageRefs) : ~HasPrefix(imageRefs[n].ImagePath, DataScheme)

\* some match of re in text has a locator (the group at index path) that
\* begins with data:
HasDataMatch(re, groups, path, text) ==
    \E m \in Range(FindAllStringSubmatchIndex(re, groups, text)) :
        HasPrefix(Slice(text, m[path], m[path + 1]), DataScheme)

\* a document has been scanned in which both the sized markdown expression
\* and the sized HTML expression matched an image with a data: locator
C5_Witness ==
    /\ pc = "loop"
    /\ HasDataMatch(markdownRegex, 5, 4, content)
    /\ HasDataMatch(htmlRegex, 4, 2, content)

\* C6: run on the text that a first run returned after embedding every
\* reference, the scanner finds no reference and processMarkdown returns
\* the text unchanged.
C6_SecondRunIsNoOp ==
    run = 2 /\ pc # "start" =>
        /\ imageRefs = <<>>
        /\ pc = "done" => result = content

\* C7: when processMarkdown returns, the output holds ![alt](data:mime;
\* base64,payload) for every reference materialized, and one <img less than
\* the document for every HTML reference materialized.
C7_EmittedAsMarkdownImage ==
    pc = "done" =>
        /\ \A n \in Succeeded :
              Contains(result, Replacement(imageRefs[n], outcomes[n]))
        /\ Count(result, ImgOpen)
              = Count(content, ImgOpen)
                  - Cardinality({n \in Succeeded : imageRefs[n].IsHTML})

\* a markdown image followed by {: width=W}
WidthOnlyImage ==
    markdownBasicRegex \o
    << Star(FALSE, Space), Lit(<<"{", ":">>), Star(FALSE, Space),
       Lit(<<"w", "i", "d", "t", "h", "=">>), Mark(6), Plus(FALSE, Digit), Mark(7),
       Star(FALSE, Space), Lit(<<"}">>) >>

\* a markdown image followed by {: height=H}
HeightOnlyImage ==
    markdownBasicRegex \o
    << Star(FALSE, Space), Lit(<<"{", ":">>), Star(FALSE, Space),
       Lit(<<"h", "e", "i", "g", "h", "t", "=">>), Mark(6), Plus(FALSE, Digit), Mark(7),
       Star(FALSE, Space), Lit(<<"}">>) >>

\* some reference has the span of match m, and this width and height
RecognizedAs(m, width, height) ==
    \E n \in 1..Len(imageRefs) :
        /\ imageRefs[n].StartPos = m[0]
        /\ imageRefs[n].EndPos = m[1]
        /\ imageRefs[n].Width = width
        /\ imageRefs[n].Height = height

\* C8: a markdown image with a locator other than data: that is followed by
\* {: width=W}, {: height=H} or {: width=W height=H} is one reference, whose
\* span includes the qualifier, with the attributes given and 0 for the
\* attribute absent.
C8_SizeQualifierRecognized ==
    pc # "start" =>
        /\ \A m \in Range(FindAllStringSubmatchIndex(WidthOnlyImage, 3, content)) :
              IsDataURL(Slice(content, m[4], m[5]))
                \/ RecognizedAs(m, Atoi(Slice(content, m[6], m[7])), 0)
        /\ \A m \in Range(FindAllStringSubmatchIndex(HeightOnlyImage, 3, content)) :
              IsDataURL(Slice(content, m[4], m[5]))
                \/ RecognizedAs(m, 0, Atoi(Slice(content, m[6], m[7])))
        /\ \A m \in Range(FindAllStringSubmatchIndex(markdownRegex, 5, content)) :
              IsDataURL(Slice(content, m[4], m[5]))
                \/ RecognizedAs(m, Atoi(Slice(content, m[8], m[9])),
                                Atoi(Slice(content, m[10], m[11])))

\* an img element with alt before src
AltFirstImg ==
    << Lit(<<"<", "i", "m", "g">>), Plus(TRUE, {">"}),
       Lit(<<"a", "l", "t", "=">>), One(Quote), Mark(2), Star(TRUE, Quote), Mark(3),
       One(Quote), Star(TRUE, {">"}),
       Lit(<<"s", "r", "c", "=">>), One(Quote), Mark(4), Plus(TRUE, Quote), Mark(5),
       One(Quote), Star(TRUE, {">"}), Lit(<<">">>) >>

\* an img element with src, alt, height and width, in this order
HeightFirstImg ==
    << Lit(<<"<", "i", "m", "g">>), Plus(TRUE, {">"}),
       Lit(<<"s", "r", "c", "=">>), One(Quote), Mark(2), Plus(TRUE, Quote), Mark(3),
       One(Quote), Star(TRUE, {">"}),
       Lit(<<"a", "l", "t", "=">>), One(Quote), Mark(4), Star(TRUE, Quote), Mark(5),
       One(Quote), Star(TRUE, {">"}),
       Lit(<<"h", "e", "i", "g", "h", "t", "=">>), One(Quote), Mark(6),
       Plus(FALSE, Digit), Mark(7), One(Quote), Star(TRUE, {">"}),
       Lit(<<"w", "i", "d", "t", "h", "=">>), One(Quote), Mark(8), Plus(FALSE, Digit),
       Mark(9), One(Quote), Star(TRUE, {">"}), Lit(<<">">>) >>

\* some reference has the span of match m, and this locator and alt text
RecognizedWith(m, imagePath, altText) ==
    \E n \in 1..Len(imageRefs) :
        /\ imageRefs[n].StartPos = m[0]
        /\ imageRefs[n].EndPos = m[1]
        /\ imageRefs[n].ImagePath = imagePath
        /\ imageRefs[n].AltText = altText

\* C9: an img element with a locator other than data: is a reference with
\* the locator, alt text, width and height it carries also when alt comes
\* before src, and when height comes before width.
C9_AttributeOrderIndependent ==
    pc # "start" =>
        /\ \A m \in Range(FindAllStringSubmatchIndex(AltFirstImg, 2, content)) :
              IsDataURL(Slice(content, m[4], m[5]))
                \/ RecognizedWith(m, Slice(content, m[4], m[5]),
                                  Slice(content, m[2], m[3]))
        /\ \A m \in Range(FindAllStringSubmatchIndex(HeightFirstImg, 4, content)) :
              IsDataURL(Slice(content, m[2], m[3]))
                \/ /\ RecognizedWith(m, Slice(content, m[2], m[3]),
                                     Slice(content, m[4], m[5]))
                   /\ RecognizedAs(m, Atoi(Slice(content, m[8], m[9])),
                                   Atoi(Slice(content, m[6], m[7])))

\* C10: a raster image embedded for a reference that asks for a width and no
\* height is that wide and width * srcH \div srcW high; one embedded for a
\* reference that asks for a height and no width is that high and
\* height * srcW \div srcH wide.
C10_OneDimensionKeepsAspectRatio ==
    \A n \in Succeeded :
        LET ref == imageRefs[n]
            img == outcomes[n].payload
        IN  img.kind \in {"PNG", "JPEG", "GIF", "PPM"} =>
              /\ ref.Width > 0 /\ ref.Height = 0 =>
                    /\ img.w = ref.Width
                    /\ img.h = (ref.Width * img.srcH) \div img.srcW
              /\ ref.Height > 0 /\ ref.Width = 0 =>
                    /\ img.h = ref.Height
                    /\ img.w = (ref.Height * img.srcW) \div img.srcH

\* the payload came out of one of the program's encoders
Reencoded(out) == out.payload.enc \in {"png", "jpeg", "gif"}

\* C11: an image that is decoded and encoded again for a reference that asks
\* for a width and a height, both above zero, is exactly that wide and that
\* high, whatever the size of its source.
C11_BothGivenExactSize ==
    \A n \in Succeeded :
        LET ref == imageRefs[n]
            img == outcomes[n].payload
        IN  ref.Width > 0 /\ ref.Height > 0 /\ Reencoded(outcomes[n]) =>
              img.w = ref.Width /\ img.h = ref.Height /\ img.resampled

\* a source of 200x100 has been embedded as 10x10, from a file and from a
\* response
C11_Witness ==
    /\ outcomes # <<>>
    /\ Reencoded(outcomes[1])
    /\ imageRefs[1].Width = 10 /\ imageRefs[1].Height = 10
    /\ outcomes[1].payload.srcW = 200 /\ outcomes[1].payload.srcH = 100
    /\ outcomes[1].payload.w = 10 /\ outcomes[1].payload.h = 10

Raster == {"PNG", "JPEG", "GIF", "PPM"}

Max(a, b) == IF a >= b THEN a ELSE b

Min(a, b) == IF a <= b THEN a ELSE b

\* C12: a raster image embedded for a reference that asks for no width and
\* no height is, when the larger side of its source is above the threshold,
\* scaled so that its larger side is the threshold and its other side is in
\* proportion; otherwise it is not resampled.
C12_DefaultCapApplied ==
    \A n \in Succeeded :
        LET ref == imageRefs[n]
            img == outcomes[n].payload
        IN  ref.Width = 0 /\ ref.Height = 0 /\ img.kind \in Raster =>
              IF Max(img.srcW, img.srcH) > DefaultMaxSize
              THEN /\ Max(img.w, img.h) = DefaultMaxSize
                   /\ Min(img.w, img.h)
                        = (DefaultMaxSize * Min(img.srcW, img.srcH))
                            \div Max(img.srcW, img.srcH)
              ELSE ~img.resampled /\ img.w = img.srcW /\ img.h = img.srcH

AgreesWith(mimeType, payload) ==
    CASE mimeType = ImageSvg -> payload.enc = "raw" /\ payload.kind = "SVG"
      [] mimeType = ImagePng ->
            payload.enc = "png" \/ (payload.enc = "raw" /\ payload.kind = "PNG")
      [] mimeType = ImageGif ->
            payload.enc = "gif" \/ (payload.enc = "raw" /\ payload.kind = "GIF")
      [] mimeType = ImageJpeg ->
            payload.enc = "jpeg" \/ (payload.enc = "raw" /\ payload.kind = "JPEG")
      [] OTHER -> FALSE

\* C14: the media type of every image materialized agrees with the encoding
\* of its payload; image/svg+xml is given to SVG markup only.
C14_MediaTypeAgreesWithPayload ==
    \A n \in Succeeded : AgreesWith(outcomes[n].mimeType, outcomes[n].payload)

\* what was decoded as format has been encoded by encoder and is labelled
\* with the encoder's media type
EncodedAs(out, encoder, mimeType) ==
    out.payload.enc = encoder /\ out.mimeType = mimeType

\* C15, as stated: a decoded PNG is encoded as PNG with image/png, a GIF as
\* GIF with image/gif, and every other decoded format, PPM included, as
\* JPEG with image/jpeg.
C15_PpmEncodedAsJpeg ==
    \A n \in Succeeded :
        LET out == outcomes[n]
        IN  Reencoded(out) =>
              CASE out.payload.kind = "PNG" -> EncodedAs(out, "png", ImagePng)
                [] out.payload.kind = "GIF" -> EncodedAs(out, "gif", ImageGif)
                [] OTHER -> EncodedAs(out, "jpeg", ImageJpeg)

\* C15, amended: a decoded PNG or PPM is encoded as PNG with image/png, a GIF
\* as GIF with image/gif, and every other decoded format as JPEG with
\* image/jpeg, for files and for responses.
C15_EncoderByFormat ==
    \A n \in Succeeded :
        LET out == outcomes[n]
        IN  Reencoded(out) =>
              CASE out.payload.kind \in {"PNG", "PPM"} -> EncodedAs(out, "png", ImagePng)
                [] out.payload.kind = "GIF" -> EncodedAs(out, "gif", ImageGif)
                [] OTHER -> EncodedAs(out, "jpeg", ImageJpeg)

\* a PPM response has been decoded, resized and embedded as image/png
C15_Witness ==
    /\ outcomes # <<>>
    /\ "status" \in DOMAIN worlds[1].named
    /\ outcomes[1].payload.kind = "PPM"
    /\ EncodedAs(outcomes[1], "png", ImagePng)

\* the value an attribute of the markup is to have: the requested one if
\* one is requested and the attribute is there, else the one it had
Patched(requested, attribute) ==
    IF requested > 0 /\ attribute > 0 THEN requested ELSE attribute

\* C16: SVG markup is embedded as image/svg+xml, with its width attribute
\* set to the requested width and its height attribute set to the requested
\* height, each only if requested and present, and else as it came.
C16_SvgDimensionsPatched ==
    \A n \in Succeeded :
        LET ref == imageRefs[n]
            img == outcomes[n].payload
        IN  img.kind = "SVG" =>
              /\ outcomes[n].mimeType = ImageSvg
              /\ img.w = Patched(ref.Width, img.srcW)
              /\ img.h = Patched(ref.Height, img.srcH)

\* the path of call n named a file or brought a response with status 200
HasBytes(n) ==
    LET world == worlds[n].named
    IN  IF "exists" \in DOMAIN world THEN world.exists
        ELSE ~world.fails /\ world.status = 200

BytesOf(n) ==
    LET world == worlds[n].named
    IN  IF "exists" \in DOMAIN world THEN world.bytes ELSE world.body

\* no decoder reads the bytes and "<svg" is nowhere in them
Unsupported(bytes) == bytes.kind \notin Raster /\ bytes.svg = "no"

\* C17: a materialization of bytes that are not SVG markup and that no
\* decoder reads fails, for a file and for a response, and processMarkdown
\* then returns the document as it was.
C17_UnsupportedBytesFail ==
    /\ \A n \in 1..Len(outcomes) :
          HasBytes(n) /\ Unsupported(BytesOf(n)) => outcomes[n].err
    /\ pc = "done" /\ Len(outcomes) = 1 /\ outcomes[1].err => result = content

\* call n brought a response whose status is not 2xx
NonSuccessStatus(n) ==
    LET world == worlds[n].named
    IN  /\ "status" \in DOMAIN world
        /\ ~world.fails
        /\ world.status \notin 200..299

\* C18: a fetch answered with a status outside 200..299 is a failure: it
\* yields no payload, whatever the body, and the text being rewritten is
\* left as it was.
C18_NonSuccessStatusFails ==
    /\ \A n \in 1..Len(outcomes) :
          NonSuccessStatus(n) =>
              outcomes[n].err /\ outcomes[n].base64Data = <<>>
    /\ Len(outcomes) = 1 /\ NonSuccessStatus(1) => result = content

\* a response with status 404 and a PNG body has been refused, and
\* processMarkdown has returned the document as it was
C18_Witness ==
    /\ pc = "done"
    /\ Len(outcomes) = 1
    /\ NonSuccessStatus(1)
    /\ worlds[1].named.status = 404
    /\ worlds[1].named.body.kind = "PNG"
    /\ outcomes[1].err
    /\ result = content

\* C19: the calls of imageToBase64 are made in the order of the references'
\* starts in the document.
C19_MaterializedInDocumentOrder ==
    \A m, n \in 1..Len(outcomes) :
        m < n => imageRefs[m].StartPos <= imageRefs[n].StartPos

HttpPrefix == <<"h", "t", "t", "p", ":", "/", "/">>

HttpsPrefix == <<"h", "t", "t", "p", "s", ":", "/", "/">>

\* where the scheme of a URL ends: the index of the first colon, 0 if there
\* is none or if no scheme stands before it
SchemeEnd(str) ==
    LET colons == {i \in 1..Len(str) : str[i] = ":"}
        i == CHOOSE c \in colons : \A d \in colons : c <= d
    IN  IF colons = {} THEN 0
        ELSE IF i > 1 /\ \A j \in 1..(i - 1) : str[j] \notin {"/", "?", "#", "[", "!"}
             THEN i ELSE 0

\* the host of scheme://host/path, <<>> if there is none
UrlHost(str) ==
    LET i == SchemeEnd(str)
        rest == Slice(str, i, Len(str))
        after == Slice(rest, 2, Len(rest))
        slashes == {j \in 1..Len(after) : after[j] = "/"}
    IN  IF i = 0 \/ ~HasPrefix(rest, <<"/", "/">>) THEN <<>>
        ELSE IF slashes = {} THEN after
             ELSE Slice(after, 0, (CHOOSE j \in slashes : \A k \in slashes : j <= k) - 1)

\* a URL with a scheme and a host
WellFormedURL(str) == UrlParseOK(str) /\ SchemeEnd(str) > 0 /\ UrlHost(str) # <<>>

\* call n was a request for the locator as it stands
Fetched(n) ==
    "status" \in DOMAIN worlds[n].named /\ worlds[n].path = imageRefs[n].ImagePath

\* call n opened the file at baseDir joined with the locator
ReadFromBaseDir(n) ==
    /\ "exists" \in DOMAIN worlds[n].named
    /\ worlds[n].path = Join(BaseDir, imageRefs[n].ImagePath)

Overlaps(a, b) == a.StartPos < b.EndPos /\ b.StartPos < a.EndPos

\* some reference has the span of match m
Registered(m) ==
    \E n \in 1..Len(imageRefs) :
        imageRefs[n].StartPos = m[0] /\ imageRefs[n].EndPos = m[1]

\* C21: no reference of the list overlaps one registered before it, and
\* the matches of the first pass, which nothing precedes, are all kept.
C21_LaterOverlappingDropped ==
    pc # "start" =>
        /\ \A m, n \in 1..Len(imageRefs) :
              m < n => ~Overlaps(imageRefs[m], imageRefs[n])
        /\ \A m \in Range(FindAllStringSubmatchIndex(markdownRegex, 5, content)) :
              IsDataURL(Slice(content, m[4], m[5])) \/ Registered(m)

\* the number of references that start where match m starts
TimesRegistered(m) ==
    Cardinality({n \in 1..Len(imageRefs) : imageRefs[n].StartPos = m[0]})

\* the matches of re in the document whose locator, the group at index
\* path, does not begin with data:
ImageElements(re, groups, path) ==
    {m \in Range(FindAllStringSubmatchIndex(re, groups, content)) :
        ~IsDataURL(Slice(content, m[path], m[path + 1]))}

\* C22: every markdown image, with or without a size after it, and every
\* img element, with or without size attributes, whose locator is not a
\* data: URL, is registered exactly once.
C22_RegisteredExactlyOnce ==
    pc # "start" =>
        /\ \A m \in ImageElements(markdownBasicRegex, 2, 4) : TimesRegistered(m) = 1
        /\ \A m \in ImageElements(markdownNewRegex, 4, 4) : TimesRegistered(m) = 1
        /\ \A m \in ImageElements(htmlSimpleRegex, 2, 2) : TimesRegistered(m) = 1

\* step a is in steps, and before step b if b is there
Precedes(steps, a, b) ==
    \E i \in 1..Len(steps) :
        steps[i] = a /\ \A j \in 1..Len(steps) : steps[j] = b => i < j

\* C23: bytes handed to the decoders have been searched for "<svg" before,
\* and bytes that are SVG markup are not handed to the decoders, for files
\* and for responses.
C23_SvgTestBeforeDecoding ==
    \A n \in 1..Len(worlds) :
        LET steps == worlds[n].steps
        IN  /\ "decode" \in Range(steps) => Precedes(steps, "svg", "decode")
            /\ HasBytes(n) /\ BytesOf(n).kind = "SVG" => "decode" \notin Range(steps)

\* what imageToBase64 returns for a file that holds the bytes of call n
AsLocalFile(n) ==
    imageToBase64Local(imageRefs[n].Width, imageRefs[n].Height,
                       [exists |-> TRUE, bytes |-> BytesOf(n)])

\* C24: what is embedded for a response with status 200 is what is embedded
\* for a file with the same bytes and the same requested width and height:
\* the same outcome, payload and media type, whatever the Content-Type.
C24_ContentTypeAdvisory ==
    \A n \in 1..Len(outcomes) :
        "status" \in DOMAIN worlds[n].named /\ HasBytes(n) =>
            /\ outcomes[n].err = AsLocalFile(n).err
            /\ outcomes[n].payload = AsLocalFile(n).payload
            /\ outcomes[n].mimeType = AsLocalFile(n).mimeType

\* the matches of re in src that stand after white space, as an attribute
\* of that very name does
RECURSIVE AttributeMatches(_, _)
AttributeMatches(matches, src) ==
    IF matches = <<>> THEN <<>>
    ELSE LET m == Head(matches)
             rest == AttributeMatches(Tail(matches), src)
         IN  IF m[0] > 0 /\ src[m[0]] \in Space THEN <<m>> \o rest ELSE rest

\* src with the value of every attribute of that very name set to n
SetAttribute(re, name, src, n) ==
    IF n > 0
    THEN ReplaceFrom(src, AttributeMatches(FindAllStringSubmatchIndex(re, 1, src), src),
                     Attribute(name, n), 1, 0)
    ELSE src

\* C25: updateSVGDimensions returns the markup with the values of the
\* attributes named width and height set as requested and everything else,
\* attributes such as stroke-width included, as it was.
C25_OnlyWidthAndHeightPatched ==
    pc = "done" /\ content \in SvgMarkups =>
        result = SetAttribute(heightRegex, <<"h", "e", "i", "g", "h", "t">>,
                     SetAttribute(widthRegex, <<"w", "i", "d", "t", "h">>,
                                  content, imageRefs[1].Width),
                     imageRefs[1].Height)

\* C26: for a source of at least 1 x 1 and a request with a positive width
\* or a positive height, the image resizeImage returns is at least 1 x 1.
C26_TargetNeverZeroSized ==
    /\ pc = "done"
    /\ worlds[1].w >= 1 /\ worlds[1].h >= 1
    /\ (imageRefs[1].Width > 0 \/ imageRefs[1].Height > 0)
    => result.w >= 1 /\ result.h >= 1

\* C27: when processMarkdown returns and no materialization succeeded (the
\* scanner found no reference, or every reference failed), the output is
\* the input document, character for character.
C27_UnchangedWithoutSuccess ==
    pc = "done" /\ Succeeded = {} => result = content

\* processMarkdown has returned after two references that both failed
C27_Witness ==
    /\ pc = "done"
    /\ Len(imageRefs) >= 2
    /\ Len(outcomes) = Len(imageRefs)
    /\ Succeeded = {}
    /\ result = content

====
